---- MODULE Spec2Model ----
(***************************************************************************)
(* Model of the recipe/thumbnail caching layer of RecipeFinder              *)
(* (src/ProjectFolder/recipe.py): MealAPI (the remote source), the three    *)
(* cache methods of ChefApp (load_recipe_cache, save_recipe_cache,          *)
(* load_image_cached) and the workflows that call them (search_recipes,     *)
(* view_all_recipes, get_random_recipe, apply_filters, show_recipe_detail). *)
(***************************************************************************)
EXTENDS Integers, Sequences, FiniteSets, TLC

\* ------------------------------------------------------------------ bounds
\* Longest list search_by_ingredient returns.
MaxResults == 2
\* How many times in one run the environment may depart from its nominal
\* answer (a failed or changed remote answer, a failed write, a damaged file
\* found at start-up).
MaxDeviations == 1
\* How many of the twenty ingredient slots of a payload take every kind of
\* value (the slots after them are filled as in Meal).
MaxVariedSlots == 2
\* How many callbacks may be in progress at once (one running inside the
\* root.update of another).
MaxDepth == 2

\* ------------------------------------------------------- program constants
\* results[:10] in search_recipes
SearchLimit == 10
\* results[:3] in view_all_recipes
ViewAllLimit == 3
\* range(1, 21) in get_recipe_details
NumSlots == 20
\* load_image_cached(..., 120, 90) in create_recipe_card
CardWidth == 120
CardHeight == 90
\* load_image_cached(..., 150, 150) in show_recipe_detail
DetailWidth == 150
DetailHeight == 150

\* The recipe identifiers the remote source knows.
Ids == {1, 2}

\* Python's None, and an exception escaping a call.
None == [tag |-> "None"]
Raised == [tag |-> "Raised"]

Min(a, b) == IF a < b THEN a ELSE b

\* Python's s[:n]
Prefix(s, n) == SubSeq(s, 1, Min(n, Len(s)))

\* ----------------------------------------------------------------- strings
\* A Python str / JSON string: its characters in order.  JSON null is None.
Str(chars) == [tag |-> "str", chars |-> chars]

IsStr(v) == v.tag = "str"

\* bool(v) for v a str or None
Truthy(v) == IsStr(v) /\ v.chars # <<>>

RECURSIVE LStrip(_)
LStrip(s) == IF s # <<>> /\ Head(s) = " " THEN LStrip(Tail(s)) ELSE s

RECURSIVE RStrip(_)
RStrip(s) == IF s # <<>> /\ s[Len(s)] = " " THEN RStrip(SubSeq(s, 1, Len(s) - 1)) ELSE s

\* str.strip()
Strip(v) == Str(RStrip(LStrip(v.chars)))

\* what an f-string writes for {v}
Format(v) == IF IsStr(v) THEN v.chars ELSE <<"N", "o", "n", "e">>

LowerChar(c) == CASE c = "C" -> "c" [] c = "B" -> "b" [] c = "P" -> "p"
                  [] c = "S" -> "s" [] c = "U" -> "u" [] OTHER -> c

\* str.lower()
Lower(v) == Str([i \in DOMAIN v.chars |-> LowerChar(v.chars[i])])

\* needle in hay
Contains(hay, needle) ==
    \E i \in 1..(Len(hay.chars) - Len(needle) + 1) :
        SubSeq(hay.chars, i, i + Len(needle) - 1) = needle

\* dict.get(key, default)
Get(d, key, default) == IF key \in DOMAIN d THEN d[key] ELSE default

\* ------------------------------------------------------------------ Recipe
\* class Recipe: the seven fields set by the constructor.
Recipe(meal_id, name, category, area, instructions, thumbnail, ingredients) ==
    [tag |-> "Recipe", meal_id |-> meal_id, name |-> name, category |-> category,
     area |-> area, instructions |-> instructions, thumbnail |-> thumbnail,
     ingredients |-> ingredients]

\* ------------------------------------------------------ upstream payloads
Unknown == Str(<<"U", "n", "k", "n", "o", "w", "n">>)

\* The two dishes the remote may describe under an identifier; a later answer
\* for the same identifier may describe the other one.
Dishes == {[strMeal |-> Str(<<"C", "h", "i", "c", "k", "e", "n", " ", "P", "i", "e">>),
            strCategory |-> Str(<<"C", "h", "i", "c", "k", "e", "n">>)],
           [strMeal |-> Str(<<"B", "e", "e", "f", " ", "S", "t", "e", "w">>),
            strCategory |-> Str(<<"B", "e", "e", "f">>)]}

\* The slots the upstream fills: slot 1 and 3 filled, slot 2 empty strings,
\* every other slot null.
SlotIngredient(i) == IF i = 1 THEN Str(<<"S", "a", "l", "t">>)
                     ELSE IF i = 2 THEN Str(<<>>)
                     ELSE IF i = 3 THEN Str(<<"P", "e", "p", "p", "e", "r">>)
                     ELSE None
SlotMeasure(i) == IF i = 1 THEN Str(<<"1", " ", "t", "s", "p">>)
                  ELSE IF i = 2 THEN Str(<<>>)
                  ELSE IF i = 3 THEN Str(<<"2", " ", "p", "i", "n", "c", "h">>)
                  ELSE None

\* The URL of the thumbnail of recipe id.
ThumbUrl(id) == [tag |-> "url", of |-> id]

\* One element of the "meals" array of a lookup.php / random.php answer; the
\* keys strIngredient1.. and strMeasure1.. are the functions strIngredient
\* and strMeasure.
Meal(id, dish) ==
    [idMeal |-> id, strMeal |-> dish.strMeal, strCategory |-> dish.strCategory,
     strArea |-> Str(<<"U", "K">>), strInstructions |-> Str(<<"C", "o", "o", "k">>),
     strMealThumb |-> ThumbUrl(id),
     strIngredient |-> [i \in 1..NumSlots |-> SlotIngredient(i)],
     strMeasure |-> [i \in 1..NumSlots |-> SlotMeasure(i)]]

\* A payload without the strInstructions key (meal['strInstructions'] raises
\* KeyError, which is no RequestException).
MealWithoutInstructions(id, dish) ==
    [idMeal |-> id, strMeal |-> dish.strMeal, strCategory |-> dish.strCategory,
     strArea |-> Str(<<"U", "K">>),
     strMealThumb |-> ThumbUrl(id),
     strIngredient |-> [i \in 1..NumSlots |-> SlotIngredient(i)],
     strMeasure |-> [i \in 1..NumSlots |-> SlotMeasure(i)]]

Meals == {Meal(id, d) : id \in Ids, d \in Dishes}

BrokenMeal == MealWithoutInstructions(1, CHOOSE d \in Dishes : TRUE)

\* What requests.get + raise_for_status + response.json() yields for
\* lookup.php and random.php: a RequestException, {"meals": null}, or
\* {"meals": [meal]}.
DetailResponses ==
    {[kind |-> "RequestException"], [kind |-> "json", meals |-> <<>>]}
    \cup {[kind |-> "json", meals |-> <<m>>] : m \in Meals}
    \cup {[kind |-> "json", meals |-> <<BrokenMeal>>]}

\* The ingredient loop testing "if ingredient:" only, without
\* ingredient.strip().
RECURSIVE ExtractIngredients_truthy(_, _)
ExtractIngredients_truthy(meal, from) ==
    IF from > NumSlots THEN <<>>
    ELSE LET ingredient == Get(meal.strIngredient, from, None)
             measure == Get(meal.strMeasure, from, None)
             rest == ExtractIngredients_truthy(meal, from + 1)
         IN  IF Truthy(ingredient)
             THEN <<Strip(Str(Format(measure) \o <<" ">> \o Format(ingredient)))>> \o rest
             ELSE rest

\* The ingredient loop of get_recipe_details / get_random_recipe, slots
\* from..NumSlots.
RECURSIVE ExtractIngredients(_, _)
ExtractIngredients(meal, from) ==
    IF from > NumSlots THEN <<>>
    ELSE LET ingredient == Get(meal.strIngredient, from, None)
             measure == Get(meal.strMeasure, from, None)
             rest == ExtractIngredients(meal, from + 1)
         IN  IF Truthy(ingredient) /\ Truthy(Strip(ingredient))
             THEN <<Strip(Str(Format(measure) \o <<" ">> \o Format(ingredient)))>> \o rest
             ELSE rest

RequiredMealKeys == {"idMeal", "strMeal", "strInstructions", "strMealThumb"}

\* The body of MealAPI.get_recipe_details / get_random_recipe after the
\* request: a Recipe, None, or an exception that is no RequestException.
ParseDetails(response) ==
    IF response.kind = "RequestException" THEN None
    ELSE IF response.meals = <<>> THEN None
    ELSE LET meal == response.meals[1]
         IN  IF ~(RequiredMealKeys \subseteq DOMAIN meal) THEN Raised
             ELSE Recipe(meal.idMeal, meal.strMeal,
                         Get(meal, "strCategory", Unknown),
                         Get(meal, "strArea", Unknown),
                         meal.strInstructions, meal.strMealThumb,
                         ExtractIngredients(meal, 1))

\* MealAPI.get_recipe_details(meal_id), given what the remote answers
get_recipe_details(meal_id, response) == ParseDetails(response)

\* MealAPI.get_random_recipe(), given what the remote answers
api_get_random_recipe(response) == ParseDetails(response)

\* What search_by_ingredient returns: None on a RequestException, else the
\* list of {idMeal: ...} entries of filter.php (empty when "meals" is null).
RECURSIVE SeqsUpTo(_, _)
SeqsUpTo(S, n) == IF n = 0 THEN {<<>>}
                  ELSE LET shorter == SeqsUpTo(S, n - 1)
                       IN  shorter \cup {Append(s, x) : s \in shorter, x \in S}

SearchOutcomes == {None} \cup {[tag |-> "list", meals |-> s] : s \in SeqsUpTo(Ids, MaxResults)}

\* ------------------------------------------------------------ local storage
\* One record file for all identifiers.
recipe_cache_file_shared(meal_id) == <<"images", 1, "_recipe.json">>

\* os.path.join(self.images_dir, f"{meal_id}_recipe.json")
recipe_cache_file(meal_id) == <<"images", meal_id, "_recipe.json">>

\* One image file for all identifiers.
image_cache_file_shared(meal_id) == <<"images", Str(<<"7">>), ".jpg">>

\* os.path.join(self.images_dir, f"{meal_id}.jpg")
image_cache_file(meal_id) == <<"images", meal_id, ".jpg">>

\* The identifiers filter.php lists when it lists more meals than
\* view_all_recipes loads for one ingredient.
ListedIds == 1..(ViewAllLimit + 1)

Paths == {recipe_cache_file(id) : id \in Ids \cup ListedIds}
         \cup {image_cache_file(id) : id \in Ids \cup ListedIds}

\* The components of a path text, split at "/".
RECURSIVE SplitPath(_)
SplitPath(chars) ==
    IF \A i \in DOMAIN chars : chars[i] # "/" THEN <<chars>>
    ELSE LET i == CHOOSE j \in DOMAIN chars :
                      chars[j] = "/" /\ \A k \in 1..(j - 1) : chars[k] # "/"
         IN  <<SubSeq(chars, 1, i - 1)>> \o SplitPath(SubSeq(chars, i + 1, Len(chars)))

\* Where the operating system ends up after walking the directory
\* components parts from position at: "" and "." stay, ".." goes to the
\* parent (the parent of the working directory is counted in above).
RECURSIVE Walk(_, _)
Walk(at, parts) ==
    IF parts = <<>> THEN at
    ELSE LET part == Head(parts)
             next == IF part = <<>> \/ part = <<".">> THEN at
                     ELSE IF part = <<".", ".">>
                     THEN IF at.down # <<>>
                          THEN [at EXCEPT !.down = SubSeq(at.down, 1, Len(at.down) - 1)]
                          ELSE IF at.absolute THEN at
                          ELSE [at EXCEPT !.above = at.above + 1]
                     ELSE [at EXCEPT !.down = Append(at.down, part)]
         IN  Walk(next, Tail(parts))

\* self.images_dir, relative to the working directory.
ImagesDir == [absolute |-> FALSE, above |-> 0, down |-> <<<<"i", "m", "a", "g", "e", "s">>>>]

\* The directory in which open() / os.path.exists() look for the file of
\* a cache path: os.path.join drops images_dir when the file name starts
\* with "/", and the file name is the identifier's text with the suffix
\* appended, so every "/" of the identifier separates directories.
DirectoryOf(path) ==
    LET parts == SplitPath(Format(path[2]))
        dirs == SubSeq(parts, 1, Len(parts) - 1)
    IN  IF Len(parts) > 1 /\ parts[1] = <<>>
        THEN Walk([absolute |-> TRUE, above |-> 0, down |-> <<>>], dirs)
        ELSE Walk(ImagesDir, dirs)

\* The directory is images/ or lies below it.
InsideImagesDir(dir) ==
    /\ ~dir.absolute
    /\ dir.above = 0
    /\ Len(dir.down) >= Len(ImagesDir.down)
    /\ SubSeq(dir.down, 1, Len(ImagesDir.down)) = ImagesDir.down

\* No file at a path.
NoFile == [kind |-> "absent"]

\* File contents no decoder accepts: arbitrary bytes, and the prefix that a
\* write leaves when it fails part-way (open(.., 'w') has truncated the file).
Garbage == [kind |-> "garbage"]
PartialWrite == [kind |-> "partial"]

\* os.path.exists
exists(fs, path) == fs[path] # NoFile

\* The keys of the dict save_recipe_cache serializes.
RecipeKeys == {"meal_id", "name", "category", "area", "instructions",
               "thumbnail", "ingredients"}

\* The JSON text json.dump writes for one value of the dict: a list becomes
\* an array of the texts of its elements, None becomes null, a str becomes
\* a string; the identifier and the thumbnail URL are written as they are.
json_encode(key, v) ==
    IF key = "ingredients"
    THEN [json |-> "array",
          elements |-> [i \in DOMAIN v |-> [json |-> "string", text |-> v[i].chars]]]
    ELSE IF key \in {"meal_id", "thumbnail"} THEN [json |-> "scalar", value |-> v]
    ELSE IF v = None THEN [json |-> "null"]
    ELSE [json |-> "string", text |-> v.chars]

\* The Python value json.load builds from a JSON text.
json_decode(j) ==
    CASE j.json = "array" -> [i \in DOMAIN j.elements |-> Str(j.elements[i].text)]
      [] j.json = "scalar" -> j.value
      [] j.json = "null" -> None
      [] j.json = "string" -> Str(j.text)

\* json.dump that leaves out the keys whose value is None.
json_dump_skip_null(data) ==
    [kind |-> "json",
     object |-> [k \in {key \in DOMAIN data : key = "ingredients" \/ data[key] # None}
                   |-> json_encode(k, data[k])]]

\* json.dump(data, f): the document holding the JSON object of a Python
\* dict, one member per key.
json_dump(data) == [kind |-> "json", object |-> [k \in DOMAIN data |-> json_encode(k, data[k])]]

\* json.load(f): the parsed value, or JSONDecodeError / UnicodeDecodeError.
json_load(doc) ==
    IF doc.kind # "json" THEN Raised
    ELSE IF "object" \in DOMAIN doc
    THEN [tag |-> "dict", items |-> [k \in DOMAIN doc.object |-> json_decode(doc.object[k])]]
    ELSE [tag |-> "list", items |-> doc.array]

\* The try-body of load_recipe_cache: json.load, then the seven data[...]
\* subscripts (TypeError on a list, KeyError on a missing key).
load_recipe_cache_try(doc) ==
    LET data == json_load(doc)
    IN  IF data = Raised THEN Raised
        ELSE IF data.tag # "dict" THEN Raised
        ELSE IF ~(RecipeKeys \subseteq DOMAIN data.items) THEN Raised
        ELSE Recipe(data.items["meal_id"], data.items["name"],
                    data.items["category"], data.items["area"],
                    data.items["instructions"], data.items["thumbnail"],
                    data.items["ingredients"])

\* load_recipe_cache with "except json.JSONDecodeError:" in place of the bare
\* except: a KeyError or TypeError escapes.
load_recipe_cache_narrow_except(fs, meal_id) ==
    LET cache_file == recipe_cache_file(meal_id)
    IN  IF exists(fs, cache_file)
        THEN LET r == load_recipe_cache_try(fs[cache_file])
             IN  IF r = Raised /\ json_load(fs[cache_file]) = Raised THEN None ELSE r
        ELSE None

\* ChefApp.load_recipe_cache(meal_id) on storage fs: a Recipe, None, or
\* Raised when an exception escapes.  The bare except catches everything.
load_recipe_cache(fs, meal_id) ==
    LET cache_file == recipe_cache_file(meal_id)
    IN  IF exists(fs, cache_file)
        THEN LET r == load_recipe_cache_try(fs[cache_file])
             IN  IF r = Raised THEN None ELSE r
        ELSE None

\* How a write to storage goes: it succeeds, open() fails (the file is left
\* as it was), or the write fails after open() truncated the file.
WriteOutcomes == {"ok", "open_fails", "write_fails"}

\* The dict save_recipe_cache builds.
recipe_data(recipe) ==
    [meal_id |-> recipe.meal_id, name |-> recipe.name, category |-> recipe.category,
     area |-> recipe.area, instructions |-> recipe.instructions,
     thumbnail |-> recipe.thumbnail, ingredients |-> recipe.ingredients]

\* save_recipe_cache that writes nothing.
save_recipe_cache_unwritten(fs, recipe, io) == [files |-> fs, raised |-> FALSE]

\* save_recipe_cache without its try/except: a failed write raises.
save_recipe_cache_unguarded(fs, recipe, io) ==
    LET cache_file == recipe_cache_file(recipe.meal_id)
    IN  CASE io = "ok" ->
               [files |-> [fs EXCEPT ![cache_file] = json_dump(recipe_data(recipe))],
                raised |-> FALSE]
          [] io = "open_fails" -> [files |-> fs, raised |-> TRUE]
          [] io = "write_fails" ->
               [files |-> [fs EXCEPT ![cache_file] = PartialWrite], raised |-> TRUE]

\* save_recipe_cache keeping one record only: writing a record removes the
\* documents of all other ids.
save_recipe_cache_evicting(fs, recipe, io) ==
    LET cache_file == recipe_cache_file(recipe.meal_id)
    IN  [files |-> [p \in DOMAIN fs |->
                      IF p = cache_file THEN json_dump(recipe_data(recipe))
                      ELSE IF p[3] = "_recipe.json" THEN NoFile ELSE fs[p]],
         raised |-> FALSE]

\* save_recipe_cache opening the file with mode 'x': the write fails, and is
\* swallowed, when the document already exists.
save_recipe_cache_exclusive(fs, recipe, io) ==
    LET cache_file == recipe_cache_file(recipe.meal_id)
    IN  IF exists(fs, cache_file) THEN [files |-> fs, raised |-> FALSE]
        ELSE CASE io = "ok" ->
                    [files |-> [fs EXCEPT ![cache_file] = json_dump(recipe_data(recipe))],
                     raised |-> FALSE]
               [] io = "open_fails" -> [files |-> fs, raised |-> FALSE]
               [] io = "write_fails" ->
                    [files |-> [fs EXCEPT ![cache_file] = PartialWrite], raised |-> FALSE]

\* ChefApp.save_recipe_cache(recipe) on storage fs when the write goes as io
\* says: the storage afterwards, and whether an exception escapes.  The bare
\* except swallows every exception.
save_recipe_cache(fs, recipe, io) ==
    LET cache_file == recipe_cache_file(recipe.meal_id)
    IN  CASE io = "ok" ->
               [files |-> [fs EXCEPT ![cache_file] = json_dump(recipe_data(recipe))],
                raised |-> FALSE]
          [] io = "open_fails" -> [files |-> fs, raised |-> FALSE]
          [] io = "write_fails" ->
               [files |-> [fs EXCEPT ![cache_file] = PartialWrite], raised |-> FALSE]

\* ------------------------------------------------------------------ images
\* The size of the thumbnails the remote serves.
NativeSize == <<700, 700>>

\* The pictures the remote may serve.
Pictures == {"dish", "plate"}

\* An image file: the picture it encodes, its size, and whether it has been
\* through a (lossy) JPEG re-encoding on this machine.
ImageFile(picture, size, reencoded) ==
    [kind |-> "image", picture |-> picture, size |-> size, reencoded |-> reencoded]

\* What requests.get(url, timeout=5) yields (there is no raise_for_status):
\* an exception, a body that is no image, or an image at its native size.
ImageResponses ==
    {[kind |-> "RequestException"], [kind |-> "content", content |-> Garbage]}
    \cup {[kind |-> "content", content |-> ImageFile(p, NativeSize, FALSE)] : p \in Pictures}

\* Image.open followed by the load that resize/save force: a PIL image, or
\* an exception.
Image_open(content) ==
    IF content.kind = "image"
    THEN [tag |-> "Image", picture |-> content.picture, size |-> content.size,
          reencoded |-> content.reencoded]
    ELSE Raised

\* The file img.save(cache_filename, "JPEG") writes.
Image_save(img) == ImageFile(img.picture, img.size, TRUE)

\* img.thumbnail((width, height)) in place of resize: the image is fitted
\* into the box with its aspect ratio kept.
Image_thumbnail(img, width, height) ==
    LET w == img.size[1]
        h == img.size[2]
    IN  IF w * height <= h * width
        THEN [img EXCEPT !.size = <<(w * height) \div h, height>>]
        ELSE [img EXCEPT !.size = <<width, (h * width) \div w>>]

\* img.resize((width, height), Image.Resampling.LANCZOS)
Image_resize(img, width, height) == [img EXCEPT !.size = <<width, height>>]

\* ImageTk.PhotoImage(img)
PhotoImage(img) == [tag |-> "PhotoImage", picture |-> img.picture, size |-> img.size,
                    reencoded |-> img.reencoded]

\* What one branch of load_image_cached yields: the storage afterwards, the
\* PIL image in img_data (Raised: an exception was raised), whether the remote
\* was asked, and whether a write was tried.
ImageBranch(fs, img_data, asked, tried) ==
    [files |-> fs, img_data |-> img_data, fetched |-> asked, saved |-> tried]

\* The branch of load_image_cached taken when the cache file exists.
image_from_cache(fs, cache_filename) ==
    ImageBranch(fs, Image_open(fs[cache_filename]), FALSE, FALSE)

\* The download branch writing response.content to the cache file before
\* decoding it.
image_from_remote_write_first(fs, cache_filename, response, io) ==
    IF response.kind = "RequestException" THEN ImageBranch(fs, Raised, TRUE, FALSE)
    ELSE CASE io = "ok" ->
                ImageBranch([fs EXCEPT ![cache_filename] = response.content],
                            Image_open(response.content), TRUE, TRUE)
           [] io = "open_fails" -> ImageBranch(fs, Raised, TRUE, TRUE)
           [] io = "write_fails" ->
                ImageBranch([fs EXCEPT ![cache_filename] = PartialWrite], Raised, TRUE, TRUE)

\* The download branch of load_image_cached: requests.get, Image.open, and
\* img_data.save(cache_filename, "JPEG").
image_from_remote(fs, cache_filename, response, io) ==
    IF response.kind = "RequestException" THEN ImageBranch(fs, Raised, TRUE, FALSE)
    ELSE LET img_data == Image_open(response.content)
         IN  IF img_data = Raised THEN ImageBranch(fs, Raised, TRUE, FALSE)
             ELSE CASE io = "ok" ->
                         ImageBranch([fs EXCEPT ![cache_filename] = Image_save(img_data)],
                                     img_data, TRUE, TRUE)
                    [] io = "open_fails" -> ImageBranch(fs, Raised, TRUE, TRUE)
                    [] io = "write_fails" ->
                         ImageBranch([fs EXCEPT ![cache_filename] = PartialWrite],
                                     Raised, TRUE, TRUE)

\* load_image_cached saving the resized image back to the cache file.
load_image_cached_persist(fs, url, meal_id, width, height, response, io) ==
    LET cache_filename == image_cache_file(meal_id)
        b == IF exists(fs, cache_filename) THEN image_from_cache(fs, cache_filename)
             ELSE image_from_remote(fs, cache_filename, response, io)
    IN  IF b.img_data = Raised
        THEN [files |-> b.files, result |-> None, fetched |-> b.fetched, saved |-> b.saved]
        ELSE [files |-> [b.files EXCEPT ![cache_filename] =
                             Image_save(Image_resize(b.img_data, width, height))],
              result |-> PhotoImage(Image_resize(b.img_data, width, height)),
              fetched |-> b.fetched, saved |-> b.saved]

\* ChefApp.load_image_cached(url, meal_id, width, height) on storage fs, when
\* the remote answers response and a write goes as io says: the storage
\* afterwards, what is returned, whether the remote was asked, and whether a
\* write was tried.  The except clause turns every exception into None.
load_image_cached(fs, url, meal_id, width, height, response, io) ==
    LET cache_filename == image_cache_file(meal_id)
        b == IF exists(fs, cache_filename) THEN image_from_cache(fs, cache_filename)
             ELSE image_from_remote(fs, cache_filename, response, io)
    IN  IF b.img_data = Raised
        THEN [files |-> b.files, result |-> None, fetched |-> b.fetched, saved |-> b.saved]
        ELSE [files |-> b.files,
              result |-> PhotoImage(Image_resize(b.img_data, width, height)),
              fetched |-> b.fetched, saved |-> b.saved]

\* ------------------------------------------------------------------- state
VARIABLES
    files,            \* the images/ directory: path -> file content
    all_recipes,      \* self.all_recipes
    current_recipes,  \* self.current_recipes (the cards on display)
    filter_chicken,   \* self.filter_chicken
    filter_beef,      \* self.filter_beef
    filter_seafood,   \* self.filter_seafood
    pc,               \* where the running callback is ("idle": none is running)
    pending,          \* the search results the running loop has still to load
    ingredients,      \* the ingredients view_all_recipes has still to search
    cards,            \* the recipes display_recipe_cards has still to draw
    deviations,       \* how often the environment has departed from nominal
    last,             \* what the latest step did (observation only)
    stack             \* the callbacks in progress, statement by statement,
                      \* innermost last (used where root.update is modelled)

vars == <<files, all_recipes, current_recipes, filter_chicken, filter_beef,
          filter_seafood, pc, pending, ingredients, cards, deviations, last, stack>>

\* A record document written by a program version that knew no ingredients
\* field.
DocWithoutIngredients ==
    LET r == json_dump(recipe_data(ParseDetails(
                 [kind |-> "json", meals |-> <<Meal(1, CHOOSE d \in Dishes : TRUE)>>])))
    IN  [kind |-> "json", object |-> [k \in RecipeKeys \ {"ingredients"} |-> r.object[k]]]

EmptyStorage == [p \in Paths |-> NoFile]

\* What the images/ directory may hold when the application starts: nothing,
\* or one damaged artifact left by an earlier run or another program.
InitialStorage ==
    {EmptyStorage}
    \cup {[EmptyStorage EXCEPT ![recipe_cache_file(id)] = doc] :
            id \in Ids, doc \in {Garbage, DocWithoutIngredients}}
    \cup {[EmptyStorage EXCEPT ![image_cache_file(id)] = doc] :
            id \in Ids, doc \in {Garbage}}

\* ChefApp.__init__
Init ==
    /\ files \in InitialStorage
    /\ all_recipes = <<>>
    /\ current_recipes = <<>>
    /\ filter_chicken = FALSE
    /\ filter_beef = FALSE
    /\ filter_seafood = FALSE
    /\ pc = "idle"
    /\ pending = <<>>
    /\ ingredients = <<>>
    /\ cards = <<>>
    /\ deviations = (IF files = EmptyStorage THEN 0 ELSE 1)
    /\ last = [op |-> "init"]
    /\ stack = <<>>

\* --------------------------------------------------------------- workflows
\* The loop body without its cache lookup: the remote is asked every time.
read_through_refetch(fs, meal_id, response, io) ==
    LET fetched == get_recipe_details(meal_id, response)
    IN  IF fetched = Raised \/ fetched = None
        THEN [files |-> fs, recipe |-> fetched, called |-> TRUE, saved |-> FALSE]
        ELSE LET written == save_recipe_cache(fs, fetched, io)
             IN  [files |-> written.files,
                  recipe |-> IF written.raised THEN Raised ELSE fetched,
                  called |-> TRUE, saved |-> TRUE]

\* The loop body remembering a failed fetch: it leaves an empty document for
\* the identifier.
read_through_negative(fs, meal_id, response, io) ==
    LET cached == load_recipe_cache(fs, meal_id)
    IN  IF cached = Raised
        THEN [files |-> fs, recipe |-> Raised, called |-> FALSE, saved |-> FALSE]
        ELSE IF cached # None
        THEN [files |-> fs, recipe |-> cached, called |-> FALSE, saved |-> FALSE]
        ELSE LET fetched == get_recipe_details(meal_id, response)
             IN  IF fetched = Raised
                 THEN [files |-> fs, recipe |-> fetched, called |-> TRUE, saved |-> FALSE]
                 ELSE IF fetched = None
                 THEN [files |-> [fs EXCEPT ![recipe_cache_file(meal_id)] = PartialWrite],
                       recipe |-> fetched, called |-> TRUE, saved |-> FALSE]
                 ELSE LET written == save_recipe_cache(fs, fetched, io)
                      IN  [files |-> written.files,
                           recipe |-> IF written.raised THEN Raised ELSE fetched,
                           called |-> TRUE, saved |-> TRUE]

\* The cache-first lookup of one search result (the loop body of
\* search_recipes, repeated in view_all_recipes) on storage fs, when the
\* remote answers response and a write goes as io says: the storage
\* afterwards, the recipe obtained (None: skipped; Raised: an exception ended
\* the callback), whether the remote was asked, and whether a write was tried.
read_through(fs, meal_id, response, io) ==
    LET cached == load_recipe_cache(fs, meal_id)
    IN  IF cached = Raised
        THEN [files |-> fs, recipe |-> Raised, called |-> FALSE, saved |-> FALSE]
        ELSE IF cached # None
        THEN [files |-> fs, recipe |-> cached, called |-> FALSE, saved |-> FALSE]
        ELSE LET fetched == get_recipe_details(meal_id, response)
             IN  IF fetched = Raised \/ fetched = None
                 THEN [files |-> fs, recipe |-> fetched, called |-> TRUE, saved |-> FALSE]
                 ELSE LET written == save_recipe_cache(fs, fetched, io)
                      IN  [files |-> written.files,
                           recipe |-> IF written.raised THEN Raised ELSE fetched,
                           called |-> TRUE, saved |-> TRUE]

\* The list apply_filters computes from all_recipes and the three filters.
RECURSIVE FilterRecipes(_, _, _, _)
FilterRecipes(recipes, chicken, beef, seafood) ==
    IF recipes = <<>> THEN <<>>
    ELSE LET recipe == Head(recipes)
             category_lower == Lower(recipe.category)
             name_lower == Lower(recipe.name)
             keep ==
                 \/ chicken /\ (\/ Contains(category_lower, <<"c", "h", "i", "c", "k", "e", "n">>)
                                \/ Contains(name_lower, <<"c", "h", "i", "c", "k", "e", "n">>))
                 \/ beef /\ (\/ Contains(category_lower, <<"b", "e", "e", "f">>)
                             \/ Contains(name_lower, <<"b", "e", "e", "f">>))
                 \/ seafood /\ (\/ Contains(category_lower, <<"s", "e", "a", "f", "o", "o", "d">>)
                                \/ Contains(name_lower, <<"f", "i", "s", "h">>)
                                \/ Contains(name_lower, <<"p", "r", "a", "w", "n">>)
                                \/ Contains(name_lower, <<"s", "a", "l", "m", "o", "n">>))
             rest == FilterRecipes(Tail(recipes), chicken, beef, seafood)
         IN  IF keep THEN <<recipe>> \o rest ELSE rest

\* ChefApp.apply_filters up to display_recipe_cards, with the filters at the
\* given values: it returns at once when all_recipes is empty; otherwise it
\* sets current_recipes and hands every one of them to display_recipe_cards.
apply_filters(chicken, beef, seafood) ==
    IF all_recipes = <<>>
    THEN /\ pc' = "idle"
         /\ UNCHANGED <<current_recipes, cards>>
    ELSE LET shown == IF ~(chicken \/ beef \/ seafood) THEN all_recipes
                      ELSE FilterRecipes(all_recipes, chicken, beef, seafood)
         IN  /\ current_recipes' = shown
             /\ cards' = shown
             /\ pc' = IF shown = <<>> THEN "idle" ELSE "cards"

\* ------------------------------------------------------------ environment
\* The answer lookup.php gives for meal_id when nothing is wrong and the
\* remote's data has not changed, and the thumbnail the image host serves.
NominalDish == CHOOSE d \in Dishes : Contains(Lower(d.strCategory), <<"b", "e", "e", "f">>)
NominalDetails(meal_id) == [kind |-> "json", meals |-> <<Meal(meal_id, NominalDish)>>]
NominalImage == [kind |-> "content", content |-> ImageFile("dish", NativeSize, FALSE)]

\* 1 for an answer that departs from the nominal one, else 0.
Deviation(departs) == IF departs THEN 1 ELSE 0

\* The environment may depart from nominal cost more times.
Within(cost) ==
    /\ deviations + cost <= MaxDeviations
    /\ deviations' = deviations + cost

\* ----------------------------------------------------------------- actions
\* search_recipes emptying all_recipes before it searches.
SearchStart_reset_first(outcome) ==
    /\ pc = "idle"
    /\ all_recipes' = <<>>
    /\ IF outcome = None \/ outcome.meals = <<>>
       THEN /\ last' = [op |-> "search_recipes",
                        outcome |-> IF outcome = None THEN "error" ELSE "no_results",
                        shown |-> IF outcome = None THEN "showerror" ELSE "showinfo"]
            /\ UNCHANGED <<pending, pc>>
       ELSE /\ pending' = Prefix(outcome.meals, SearchLimit)
            /\ pc' = "search"
            /\ last' = [op |-> "search_recipes", outcome |-> "loading", shown |-> "none"]
    /\ UNCHANGED <<stack, files, current_recipes, filter_chicken, filter_beef,
                   filter_seafood, ingredients, cards, deviations>>

\* ChefApp.search_recipes up to the start of its loop.  shown is the message
\* box the callback opens (messagebox.showerror, messagebox.showinfo).
SearchStart(outcome) ==
    /\ pc = "idle"
    /\ IF outcome = None \/ outcome.meals = <<>>
       THEN /\ last' = [op |-> "search_recipes",
                        outcome |-> IF outcome = None THEN "error" ELSE "no_results",
                        shown |-> IF outcome = None THEN "showerror" ELSE "showinfo"]
            /\ UNCHANGED <<all_recipes, pending, pc>>
       ELSE /\ all_recipes' = <<>>
            /\ pending' = Prefix(outcome.meals, SearchLimit)
            /\ pc' = "search"
            /\ last' = [op |-> "search_recipes", outcome |-> "loading", shown |-> "none"]
    /\ UNCHANGED <<stack, files, current_recipes, filter_chicken, filter_beef,
                   filter_seafood, ingredients, cards, deviations>>

\* One iteration of a loading loop (search_recipes or view_all_recipes).
LoadStep(response, io) ==
    \E meal_id \in {Head(pending)} :
    \E r \in {read_through(files, meal_id, response, io)} :
        /\ Within(Deviation(r.called /\ response # NominalDetails(meal_id))
                  + Deviation(r.saved /\ io # "ok"))
        /\ last' = [op |-> "read_through", meal_id |-> meal_id,
                    before |-> files[recipe_cache_file(meal_id)],
                    called |-> r.called,
                    response |-> IF r.called THEN response.kind ELSE "none",
                    io |-> IF r.saved THEN io ELSE "none",
                    recipe |-> r.recipe, shown |-> "none"]
        /\ files' = r.files
        /\ IF r.recipe = Raised
           THEN \* the exception ends the callback
                /\ pc' = "idle"
                /\ pending' = <<>>
                /\ ingredients' = <<>>
                /\ UNCHANGED all_recipes
           ELSE /\ all_recipes' = IF r.recipe # None THEN Append(all_recipes, r.recipe)
                                  ELSE all_recipes
                /\ pending' = Tail(pending)
                /\ UNCHANGED <<pc, ingredients>>
        /\ UNCHANGED <<stack, current_recipes, filter_chicken, filter_beef, filter_seafood, cards>>

\* The loop of search_recipes, one search result at a time.
SearchStep(response, io) ==
    /\ pc = "search"
    /\ pending # <<>>
    /\ LoadStep(response, io)

\* search_recipes after its loop: apply_filters.
SearchFinish ==
    /\ pc = "search"
    /\ pending = <<>>
    /\ apply_filters(filter_chicken, filter_beef, filter_seafood)
    /\ last' = [op |-> "apply_filters"]
    /\ UNCHANGED <<stack, files, all_recipes, filter_chicken, filter_beef, filter_seafood,
                   pending, ingredients, deviations>>

\* ChefApp.view_all_recipes up to its loop.
ViewAllStart ==
    /\ pc = "idle"
    /\ all_recipes' = <<>>
    /\ ingredients' = <<"chicken", "beef", "salmon">>
    /\ pc' = "view_all"
    /\ last' = [op |-> "view_all_recipes"]
    /\ UNCHANGED <<stack, files, current_recipes, filter_chicken, filter_beef,
                   filter_seafood, pending, cards, deviations>>

\* view_all_recipes searching without the [:3] slice.
ViewAllSearch_unlimited(outcome) ==
    /\ pc = "view_all"
    /\ pending = <<>>
    /\ ingredients # <<>>
    /\ pending' = IF outcome = None THEN <<>> ELSE outcome.meals
    /\ ingredients' = Tail(ingredients)
    /\ last' = [op |-> "search_by_ingredient", ingredient |-> Head(ingredients),
                outcome |-> IF outcome = None THEN "error"
                            ELSE IF outcome.meals = <<>> THEN "no_results" ELSE "loading",
                listed |-> IF outcome = None THEN 0 ELSE Len(outcome.meals),
                shown |-> "none"]
    /\ UNCHANGED <<stack, files, all_recipes, current_recipes, filter_chicken, filter_beef,
                   filter_seafood, pc, cards, deviations>>

\* view_all_recipes: the search for the next ingredient.  listed is the
\* number of meals filter.php listed.
ViewAllSearch(outcome) ==
    /\ pc = "view_all"
    /\ pending = <<>>
    /\ ingredients # <<>>
    /\ pending' = IF outcome = None THEN <<>> ELSE Prefix(outcome.meals, ViewAllLimit)
    /\ ingredients' = Tail(ingredients)
    /\ last' = [op |-> "search_by_ingredient", ingredient |-> Head(ingredients),
                outcome |-> IF outcome = None THEN "error"
                            ELSE IF outcome.meals = <<>> THEN "no_results" ELSE "loading",
                listed |-> IF outcome = None THEN 0 ELSE Len(outcome.meals),
                shown |-> "none"]
    /\ UNCHANGED <<stack, files, all_recipes, current_recipes, filter_chicken, filter_beef,
                   filter_seafood, pc, cards, deviations>>

\* view_all_recipes: one search result of the current ingredient.
ViewAllStep(response, io) ==
    /\ pc = "view_all"
    /\ pending # <<>>
    /\ LoadStep(response, io)

\* view_all_recipes after its loops: apply_filters.
ViewAllFinish ==
    /\ pc = "view_all"
    /\ pending = <<>>
    /\ ingredients = <<>>
    /\ apply_filters(filter_chicken, filter_beef, filter_seafood)
    /\ last' = [op |-> "apply_filters"]
    /\ UNCHANGED <<stack, files, all_recipes, filter_chicken, filter_beef, filter_seafood,
                   pending, ingredients, deviations>>

\* A filter Checkbutton is clicked: Tk flips its variable and calls
\* apply_filters.
ToggleFilter(which) ==
    /\ pc = "idle"
    /\ filter_chicken' = IF which = "chicken" THEN ~filter_chicken ELSE filter_chicken
    /\ filter_beef' = IF which = "beef" THEN ~filter_beef ELSE filter_beef
    /\ filter_seafood' = IF which = "seafood" THEN ~filter_seafood ELSE filter_seafood
    /\ apply_filters(filter_chicken', filter_beef', filter_seafood')
    /\ last' = [op |-> "apply_filters"]
    /\ UNCHANGED <<stack, files, all_recipes, pending, ingredients, deviations>>

\* One call of load_image_cached, as a step of the running callback; extra
\* counts what else departed from nominal in the same step.
ImageStep(recipe, width, height, response, io, extra) ==
    \E r \in {load_image_cached(files, recipe.thumbnail, recipe.meal_id, width, height,
                                response, io)} :
        /\ Within(extra + Deviation(r.fetched /\ response # NominalImage)
                  + Deviation(r.saved /\ io # "ok"))
        /\ files' = r.files
        /\ last' = [op |-> "load_image_cached", meal_id |-> recipe.meal_id,
                    width |-> width, height |-> height,
                    before |-> files[image_cache_file(recipe.meal_id)],
                    fetched |-> r.fetched,
                    response |-> IF r.fetched THEN response ELSE None,
                    io |-> IF r.saved THEN io ELSE "none",
                    result |-> r.result]

\* display_recipe_cards: create_recipe_card for the next recipe.
DisplayCard(response, io) ==
    /\ pc = "cards"
    /\ cards # <<>>
    /\ ImageStep(Head(cards), CardWidth, CardHeight, response, io, 0)
    /\ cards' = Tail(cards)
    /\ pc' = IF Tail(cards) = <<>> THEN "idle" ELSE "cards"
    /\ UNCHANGED <<stack, all_recipes, current_recipes, filter_chicken, filter_beef,
                   filter_seafood, pending, ingredients>>

\* A card is clicked: show_recipe_detail of its recipe.
ShowRecipeDetail(k, response, io) ==
    /\ pc = "idle"
    /\ k \in DOMAIN current_recipes
    /\ ImageStep(current_recipes[k], DetailWidth, DetailHeight, response, io, 0)
    /\ UNCHANGED <<stack, all_recipes, current_recipes, filter_chicken, filter_beef,
                   filter_seafood, pc, pending, ingredients, cards>>

\* ChefApp.get_random_recipe: the recipe is shown, never cached.  Whatever
\* random.php answers is nominal unless it is a failure.
GetRandomRecipe(details, response, io) ==
    /\ pc = "idle"
    /\ \E recipe \in {api_get_random_recipe(details)} :
           IF recipe = None \/ recipe = Raised
           THEN /\ Within(1)
                /\ last' = [op |-> "get_random_recipe", recipe |-> recipe,
                            shown |-> IF recipe = None THEN "showerror" ELSE "none"]
                /\ UNCHANGED files
           ELSE ImageStep(recipe, DetailWidth, DetailHeight, response, io, 0)
    /\ UNCHANGED <<stack, all_recipes, current_recipes, filter_chicken, filter_beef,
                   filter_seafood, pc, pending, ingredients, cards>>

\* Every callback, against an environment that may answer anything.
Next ==
    \/ \E outcome \in SearchOutcomes : SearchStart(outcome)
    \/ \E response \in DetailResponses, io \in WriteOutcomes : SearchStep(response, io)
    \/ SearchFinish
    \/ ViewAllStart
    \/ \E outcome \in SearchOutcomes : ViewAllSearch(outcome)
    \/ \E response \in DetailResponses, io \in WriteOutcomes : ViewAllStep(response, io)
    \/ ViewAllFinish
    \/ \E which \in {"chicken", "beef", "seafood"} : ToggleFilter(which)
    \/ \E response \in ImageResponses, io \in WriteOutcomes : DisplayCard(response, io)
    \/ \E k \in 1..(SearchLimit + 3 * ViewAllLimit), response \in ImageResponses,
          io \in WriteOutcomes : ShowRecipeDetail(k, response, io)
    \/ \E details \in DetailResponses, response \in ImageResponses, io \in WriteOutcomes :
          GetRandomRecipe(details, response, io)

Spec == Init /\ [][Next]_vars

\* The user searches, looks at the cards and opens recipes.
NextSearch ==
    \/ \E outcome \in SearchOutcomes : SearchStart(outcome)
    \/ \E response \in DetailResponses, io \in WriteOutcomes : SearchStep(response, io)
    \/ SearchFinish
    \/ \E response \in ImageResponses, io \in WriteOutcomes : DisplayCard(response, io)
    \/ \E k \in 1..SearchLimit, response \in ImageResponses,
          io \in WriteOutcomes : ShowRecipeDetail(k, response, io)

SpecSearch == Init /\ [][NextSearch]_vars

\* The user searches, looks at the cards, opens recipes and asks for random
\* recipes.
NextRandom ==
    \/ \E outcome \in SearchOutcomes : SearchStart(outcome)
    \/ \E response \in DetailResponses, io \in WriteOutcomes : SearchStep(response, io)
    \/ SearchFinish
    \/ \E response \in ImageResponses, io \in WriteOutcomes : DisplayCard(response, io)
    \/ \E details \in DetailResponses, response \in ImageResponses, io \in WriteOutcomes :
          GetRandomRecipe(details, response, io)

SpecRandom == Init /\ [][NextRandom]_vars

\* The user asks for all recipes: view_all_recipes up to the point where
\* the cards are drawn.
NextViewAll ==
    \/ ViewAllStart
    \/ \E outcome \in SearchOutcomes : ViewAllSearch(outcome)
    \/ \E response \in DetailResponses, io \in WriteOutcomes : ViewAllStep(response, io)
    \/ ViewAllFinish

SpecViewAll == Init /\ [][NextViewAll]_vars

\* What search_by_ingredient may return to view_all_recipes when filter.php
\* can list more meals than it loads: None, no meal, one meal, or one more
\* than ViewAllLimit.
LongListings ==
    {None} \cup {[tag |-> "list", meals |-> s] :
                   s \in {<<>>, <<ViewAllLimit + 1>>, [i \in 1..(ViewAllLimit + 1) |-> i]}}

\* lookup.php answering for the meal the loop is at: the meal, no meal, or
\* a failed request.
ListedAnswers ==
    {NominalDetails(id) : id \in ListedIds}
    \cup {[kind |-> "RequestException"], [kind |-> "json", meals |-> <<>>]}

\* view_all_recipes with long search results, up to the point where the
\* cards are drawn.
NextViewAllListed ==
    \/ ViewAllStart
    \/ \E outcome \in LongListings : ViewAllSearch(outcome)
    \/ \E response \in ListedAnswers, io \in WriteOutcomes :
          /\ pending # <<>>
          /\ (response.kind = "json" /\ response.meals # <<>>)
               => response = NominalDetails(Head(pending))
          /\ ViewAllStep(response, io)
    \/ ViewAllFinish

SpecViewAllListed == Init /\ [][NextViewAllListed]_vars

\* ------------------------------------------------- the cache methods alone
\* Identifiers as the remote hands them out (idMeal is a string), among them
\* one no honest remote would use: "7" and "../7".
KeyIds == {Str(<<"7">>), Str(<<".", ".", "/", "7">>)}

KeyPaths == {recipe_cache_file(id) : id \in KeyIds} \cup {image_cache_file(id) : id \in KeyIds}

\* The records MealAPI builds for these identifiers: the two dishes, and a
\* dish whose strCategory is null.
KeyDishes == Dishes \cup {[strMeal |-> Str(<<"F", "i", "s", "h">>), strCategory |-> None]}

KeyRecords == {ParseDetails([kind |-> "json", meals |-> <<Meal(id, d)>>]) :
                 id \in KeyIds, d \in KeyDishes}

\* ChefApp.__init__ with an empty images/ directory, before any callback.
InitCache ==
    /\ files = [p \in KeyPaths |-> NoFile]
    /\ all_recipes = <<>>
    /\ current_recipes = <<>>
    /\ filter_chicken = FALSE
    /\ filter_beef = FALSE
    /\ filter_seafood = FALSE
    /\ pc = "idle"
    /\ pending = <<>>
    /\ ingredients = <<>>
    /\ cards = <<>>
    /\ deviations = 0
    /\ last = [op |-> "init"]
    /\ stack = <<>>

\* A call of load_recipe_cache(meal_id).
CallLoadRecipeCache(meal_id) ==
    /\ last' = [op |-> "load_recipe_cache", meal_id |-> meal_id,
                path |-> recipe_cache_file(meal_id),
                result |-> load_recipe_cache(files, meal_id)]
    /\ UNCHANGED <<stack, files, all_recipes, current_recipes, filter_chicken, filter_beef,
                   filter_seafood, pc, pending, ingredients, cards, deviations>>

\* A call of save_recipe_cache(recipe).  prior is the record the preceding
\* call saved (None: the preceding call was no successful save), repeated
\* says whether that call found its own record already stored.
CallSaveRecipeCache(recipe, io) ==
    \E r \in {save_recipe_cache(files, recipe, io)} :
        /\ Within(Deviation(io # "ok"))
        /\ files' = r.files
        /\ last' = [op |-> "save_recipe_cache", meal_id |-> recipe.meal_id,
                    path |-> recipe_cache_file(recipe.meal_id),
                    recipe |-> recipe, io |-> io, raised |-> r.raised,
                    before |-> files[recipe_cache_file(recipe.meal_id)],
                    prior |-> IF last.op = "save_recipe_cache" /\ last.io = "ok"
                              THEN last.recipe ELSE None,
                    repeated |-> /\ last.op = "save_recipe_cache"
                                 /\ last.io = "ok"
                                 /\ last.prior = last.recipe]
        /\ UNCHANGED <<stack, all_recipes, current_recipes, filter_chicken, filter_beef,
                       filter_seafood, pc, pending, ingredients, cards>>

\* A call of load_image_cached(recipe.thumbnail, recipe.meal_id, 120, 90).
CallLoadImageCached(recipe, response, io) ==
    /\ ImageStep(recipe, CardWidth, CardHeight, response, io, 0)
    /\ UNCHANGED <<stack, all_recipes, current_recipes, filter_chicken, filter_beef,
                   filter_seafood, pc, pending, ingredients, cards>>

\* The three cache methods called in any order with any argument.
NextCache ==
    \/ \E meal_id \in KeyIds : CallLoadRecipeCache(meal_id)
    \/ \E recipe \in KeyRecords, io \in WriteOutcomes : CallSaveRecipeCache(recipe, io)
    \/ \E recipe \in KeyRecords, response \in ImageResponses, io \in WriteOutcomes :
          CallLoadImageCached(recipe, response, io)

SpecCache == InitCache /\ [][NextCache]_vars

\* ------------------------------------------------- the remote source alone
\* A key the payload does not have.
Missing == [tag |-> "missing"]

\* What a slot's strIngredient / strMeasure may be: a text (with or without
\* a space after it), the empty string, a blank string, null, or no key.
FilledName(i) == IF i = 1 THEN <<"S", "a", "l", "t">>
                 ELSE IF i = 3 THEN <<"P", "e", "p", "p", "e", "r">>
                 ELSE <<"E", "g", "g">>
FilledMeasure(i) == IF i = 1 THEN <<"1", " ", "t", "s", "p">>
                    ELSE IF i = 3 THEN <<"2", " ", "p", "i", "n", "c", "h">>
                    ELSE <<"3">>
IngredientValues(i) == {Str(FilledName(i)), Str(FilledName(i) \o <<" ">>), Str(<<>>),
                        Str(<<" ">>), None, Missing}
MeasureValues(i) == {Str(FilledMeasure(i)), Str(<<>>), None, Missing}

\* The part of a JSON object with key k, unless the value is Missing.
Member(k, v) == IF v = Missing THEN [x \in {} |-> x] ELSE [x \in {k} |-> v]

\* Slot values with the Missing ones left out.
Present(slot_values) ==
    [i \in {j \in DOMAIN slot_values : slot_values[j] # Missing} |-> slot_values[i]]

\* A lookup.php / random.php payload with the given category, area and
\* values of the first slots.
Payload(category, area, ingredient, measure) ==
    Member("strCategory", category) @@ Member("strArea", area) @@
    [idMeal |-> 1, strMeal |-> Str(<<"P", "i", "e">>),
     strInstructions |-> Str(<<"C", "o", "o", "k">>), strMealThumb |-> ThumbUrl(1),
     strIngredient |-> Present([i \in 1..NumSlots |->
                          IF i \in DOMAIN ingredient THEN ingredient[i] ELSE SlotIngredient(i)]),
     strMeasure |-> Present([i \in 1..NumSlots |->
                       IF i \in DOMAIN measure THEN measure[i] ELSE SlotMeasure(i)])]

\* The payloads the remote may answer with: every combination of values of
\* the first slots, and every combination of category and area.
Payloads ==
    {Payload(Str(<<"B", "e", "e", "f">>), Str(<<"U", "K">>), ingredient, measure) :
        ingredient \in {f \in [1..MaxVariedSlots ->
                                  UNION {IngredientValues(i) : i \in 1..MaxVariedSlots}] :
                            \A i \in 1..MaxVariedSlots : f[i] \in IngredientValues(i)},
        measure \in {f \in [1..MaxVariedSlots ->
                               UNION {MeasureValues(i) : i \in 1..MaxVariedSlots}] :
                         \A i \in 1..MaxVariedSlots : f[i] \in MeasureValues(i)}}
    \cup {Payload(category, area, <<>>, <<>>) :
            category \in {Str(<<"B", "e", "e", "f">>), None, Missing},
            area \in {Str(<<"U", "K">>), None, Missing}}

\* The remote has answered a request with payload last.meal; no callback
\* has run yet.
InitDetails ==
    /\ files = EmptyStorage
    /\ all_recipes = <<>>
    /\ current_recipes = <<>>
    /\ filter_chicken = FALSE
    /\ filter_beef = FALSE
    /\ filter_seafood = FALSE
    /\ pc = "idle"
    /\ pending = <<>>
    /\ ingredients = <<>>
    /\ cards = <<>>
    /\ deviations = 0
    /\ last \in {[op |-> "response", meal |-> m] : m \in Payloads}
    /\ stack = <<>>

\* MealAPI.get_recipe_details returns what it builds from the payload.
CallGetRecipeDetails ==
    /\ last.op = "response"
    /\ last' = [op |-> "api.get_recipe_details", meal |-> last.meal,
                recipe |-> get_recipe_details(last.meal.idMeal,
                                              [kind |-> "json", meals |-> <<last.meal>>])]
    /\ UNCHANGED <<stack, files, all_recipes, current_recipes, filter_chicken, filter_beef,
                   filter_seafood, pc, pending, ingredients, cards, deviations>>

\* MealAPI.get_random_recipe returns what it builds from the payload.
CallGetRandomRecipe ==
    /\ last.op = "response"
    /\ last' = [op |-> "api.get_random_recipe", meal |-> last.meal,
                recipe |-> api_get_random_recipe([kind |-> "json", meals |-> <<last.meal>>])]
    /\ UNCHANGED <<stack, files, all_recipes, current_recipes, filter_chicken, filter_beef,
                   filter_seafood, pc, pending, ingredients, cards, deviations>>

NextDetails == CallGetRecipeDetails \/ CallGetRandomRecipe

SpecDetails == InitDetails /\ [][NextDetails]_vars

\* ------------------------------------- callbacks, statement by statement
\* A callback in progress: which one, where it is, and its locals (the
\* search results still to load, the ingredients still to search, the
\* recipe of the current iteration).  A callback begins at its first
\* root.update().
Frame(op) == [op |-> op, pc |-> "update", pending |-> <<>>, ingredients |-> <<>>,
              recipe |-> None]

Top == stack[Len(stack)]

\* The innermost callback moves on to frame f / returns.
Goto(f) == stack' = [stack EXCEPT ![Len(stack)] = f]
Return == stack' = SubSeq(stack, 1, Len(stack) - 1)

\* root.update() called after the fetch as well, before the record is saved.
UpdatePoint_before_save(f) == f.pc \in {"update", "loop_update", "save"}

\* The callback is inside a root.update() call: the one at the start of
\* search_recipes, view_all_recipes and get_random_recipe, or the one that
\* follows an append in the loop of view_all_recipes.
UpdatePoint(f) == f.pc \in {"update", "loop_update"}

\* Where a loading loop goes after an iteration that leaves rest to load.
AfterIteration(f, rest) ==
    IF rest # <<>> THEN "lookup"
    ELSE IF f.op = "view_all_recipes" /\ f.ingredients # <<>> THEN "search"
    ELSE "filter"

\* The variables of the callback-at-a-time actions stay as they are.
Quiet == UNCHANGED <<filter_chicken, filter_beef, filter_seafood, pc, pending,
                     ingredients, cards>>

\* The storage after display_recipe_cards has drawn the cards of recipes,
\* the image host answering as usual.
RECURSIVE DisplayAll(_, _)
DisplayAll(fs, recipes) ==
    IF recipes = <<>> THEN fs
    ELSE DisplayAll(load_image_cached(fs, Head(recipes).thumbnail, Head(recipes).meal_id,
                                      CardWidth, CardHeight, NominalImage, "ok").files,
                    Tail(recipes))

\* What search_by_ingredient returns while callbacks nest: None, or the
\* list of the two meals filter.php knows.
Listings == {None, [tag |-> "list", meals |-> <<1, 2>>]}

\* What lookup.php answers for meal_id while callbacks nest: the meal, no
\* meal, or a failed request.
Answers(meal_id) ==
    {NominalDetails(meal_id), [kind |-> "RequestException"], [kind |-> "json", meals |-> <<>>]}

\* Tk dispatches a button click: from the main loop, or from the
\* root.update() the innermost callback is in.
Click(op) ==
    /\ Len(stack) < MaxDepth
    /\ IF stack = <<>> THEN TRUE ELSE UpdatePoint(Top)
    /\ stack' = Append(stack, Frame(op))
    /\ last' = [op |-> "click", callback |-> op]
    /\ UNCHANGED <<files, all_recipes, current_recipes, deviations>>
    /\ Quiet

\* Tk dispatches the click of a filter checkbox: apply_filters from start to
\* end, display_recipe_cards included.
ClickFilter(which) ==
    /\ IF stack = <<>> THEN TRUE ELSE UpdatePoint(Top)
    /\ filter_chicken' = IF which = "chicken" THEN ~filter_chicken ELSE filter_chicken
    /\ filter_beef' = IF which = "beef" THEN ~filter_beef ELSE filter_beef
    /\ filter_seafood' = IF which = "seafood" THEN ~filter_seafood ELSE filter_seafood
    /\ IF all_recipes = <<>>
       THEN UNCHANGED <<files, current_recipes>>
       ELSE LET shown == IF ~(filter_chicken' \/ filter_beef' \/ filter_seafood')
                         THEN all_recipes
                         ELSE FilterRecipes(all_recipes, filter_chicken', filter_beef',
                                            filter_seafood')
            IN  /\ current_recipes' = shown
                /\ files' = DisplayAll(files, shown)
    /\ last' = [op |-> "click", callback |-> "apply_filters"]
    /\ UNCHANGED <<stack, all_recipes, deviations, pc, pending, ingredients, cards>>

\* Tk dispatches the click of a card: show_recipe_detail from start to end.
ClickCard(k) ==
    /\ IF stack = <<>> THEN TRUE ELSE UpdatePoint(Top)
    /\ k \in DOMAIN current_recipes
    /\ files' = load_image_cached(files, current_recipes[k].thumbnail,
                                  current_recipes[k].meal_id, DetailWidth, DetailHeight,
                                  NominalImage, "ok").files
    /\ last' = [op |-> "click", callback |-> "show_recipe_detail"]
    /\ UNCHANGED <<stack, all_recipes, current_recipes, deviations>>
    /\ Quiet

\* search_recipes from its root.update() to the start of its loop.
StmtSearch(outcome) ==
    /\ stack # <<>>
    /\ Top.op = "search_recipes"
    /\ Top.pc = "update"
    /\ IF outcome = None \/ outcome.meals = <<>>
       THEN /\ Return
            /\ UNCHANGED all_recipes
       ELSE /\ all_recipes' = <<>>
            /\ Goto([Top EXCEPT !.pc = "lookup",
                                !.pending = Prefix(outcome.meals, SearchLimit)])
    /\ last' = [op |-> "stmt", at |-> "search"]
    /\ UNCHANGED <<files, current_recipes, deviations>>
    /\ Quiet

\* view_all_recipes from its root.update() to its loops.
StmtViewAllReset ==
    /\ stack # <<>>
    /\ Top.op = "view_all_recipes"
    /\ Top.pc = "update"
    /\ all_recipes' = <<>>
    /\ Goto([Top EXCEPT !.pc = "search", !.ingredients = <<"chicken", "beef", "salmon">>])
    /\ last' = [op |-> "stmt", at |-> "reset"]
    /\ UNCHANGED <<files, current_recipes, deviations>>
    /\ Quiet

\* view_all_recipes: the search for the next ingredient.
StmtViewAllSearch(outcome) ==
    /\ stack # <<>>
    /\ Top.pc = "search"
    /\ Top.ingredients # <<>>
    /\ LET results == IF outcome = None THEN <<>> ELSE Prefix(outcome.meals, ViewAllLimit)
           rest == Tail(Top.ingredients)
       IN  Goto([Top EXCEPT !.pending = results, !.ingredients = rest,
                            !.pc = IF results # <<>> THEN "lookup"
                                   ELSE IF rest # <<>> THEN "search" ELSE "filter"])
    /\ last' = [op |-> "stmt", at |-> "search_by_ingredient"]
    /\ UNCHANGED <<files, all_recipes, current_recipes, deviations>>
    /\ Quiet

\* recipe = self.load_recipe_cache(meal['idMeal'])
StmtLookup ==
    /\ stack # <<>>
    /\ Top.pc = "lookup"
    /\ \E recipe \in {load_recipe_cache(files, Head(Top.pending))} :
          Goto([Top EXCEPT !.recipe = recipe,
                           !.pc = IF recipe # None THEN "append" ELSE "fetch"])
    /\ last' = [op |-> "stmt", at |-> "load_recipe_cache"]
    /\ UNCHANGED <<files, all_recipes, current_recipes, deviations>>
    /\ Quiet

\* recipe = self.api.get_recipe_details(meal['idMeal']); an exception ends
\* the callback.
StmtFetch(response) ==
    /\ stack # <<>>
    /\ Top.pc = "fetch"
    /\ response \in Answers(Head(Top.pending))
    /\ Within(Deviation(response # NominalDetails(Head(Top.pending))))
    /\ \E recipe \in {get_recipe_details(Head(Top.pending), response)} :
          IF recipe = Raised THEN Return
          ELSE Goto([Top EXCEPT !.recipe = recipe,
                                !.pc = IF recipe = None THEN "append" ELSE "save"])
    /\ last' = [op |-> "stmt", at |-> "get_recipe_details"]
    /\ UNCHANGED <<files, all_recipes, current_recipes>>
    /\ Quiet

\* self.save_recipe_cache(recipe)
StmtSave(io) ==
    /\ stack # <<>>
    /\ Top.pc = "save"
    /\ Within(Deviation(io # "ok"))
    /\ files' = save_recipe_cache(files, Top.recipe, io).files
    /\ Goto([Top EXCEPT !.pc = "append"])
    /\ last' = [op |-> "stmt", at |-> "save_recipe_cache"]
    /\ UNCHANGED <<all_recipes, current_recipes>>
    /\ Quiet

\* if recipe: self.all_recipes.append(recipe); view_all_recipes then calls
\* root.update().
StmtAppend ==
    /\ stack # <<>>
    /\ Top.pc = "append"
    /\ all_recipes' = IF Top.recipe # None THEN Append(all_recipes, Top.recipe)
                      ELSE all_recipes
    /\ IF Top.recipe # None /\ Top.op = "view_all_recipes"
       THEN Goto([Top EXCEPT !.pc = "loop_update"])
       ELSE Goto([Top EXCEPT !.pending = Tail(Top.pending), !.recipe = None,
                             !.pc = AfterIteration(Top, Tail(Top.pending))])
    /\ last' = [op |-> "stmt", at |-> "append"]
    /\ UNCHANGED <<files, current_recipes, deviations>>
    /\ Quiet

\* root.update() in the loop of view_all_recipes returns.
StmtLoopContinue ==
    /\ stack # <<>>
    /\ Top.pc = "loop_update"
    /\ Goto([Top EXCEPT !.pending = Tail(Top.pending), !.recipe = None,
                        !.pc = AfterIteration(Top, Tail(Top.pending))])
    /\ last' = [op |-> "stmt", at |-> "root.update"]
    /\ UNCHANGED <<files, all_recipes, current_recipes, deviations>>
    /\ Quiet

\* self.apply_filters() at the end of search_recipes and view_all_recipes,
\* display_recipe_cards included.
StmtFilter ==
    /\ stack # <<>>
    /\ Top.pc = "filter"
    /\ IF all_recipes = <<>>
       THEN UNCHANGED <<files, current_recipes>>
       ELSE LET shown == IF ~(filter_chicken \/ filter_beef \/ filter_seafood)
                         THEN all_recipes
                         ELSE FilterRecipes(all_recipes, filter_chicken, filter_beef,
                                            filter_seafood)
            IN  /\ current_recipes' = shown
                /\ files' = DisplayAll(files, shown)
    /\ Return
    /\ last' = [op |-> "stmt", at |-> "apply_filters"]
    /\ UNCHANGED <<all_recipes, deviations>>
    /\ Quiet

\* get_random_recipe from its root.update() to its end.
StmtRandom(details) ==
    /\ stack # <<>>
    /\ Top.op = "get_random_recipe"
    /\ Top.pc = "update"
    /\ \E recipe \in {api_get_random_recipe(details)} :
          /\ Within(Deviation(recipe \in {None, Raised}))
          /\ files' = IF recipe \in {None, Raised} THEN files
                       ELSE load_image_cached(files, recipe.thumbnail, recipe.meal_id,
                                              DetailWidth, DetailHeight, NominalImage,
                                              "ok").files
    /\ Return
    /\ last' = [op |-> "stmt", at |-> "get_random_recipe"]
    /\ UNCHANGED <<all_recipes, current_recipes>>
    /\ Quiet

\* The user clicks while callbacks run; every root.update() dispatches the
\* clicks made so far.
NextReentrant ==
    \/ \E op \in {"search_recipes", "view_all_recipes", "get_random_recipe"} : Click(op)
    \/ \E which \in {"chicken"} : ClickFilter(which)
    \/ \E k \in 1..(SearchLimit + 3 * ViewAllLimit) : ClickCard(k)
    \/ \E outcome \in Listings : StmtSearch(outcome)
    \/ StmtViewAllReset
    \/ \E outcome \in Listings : StmtViewAllSearch(outcome)
    \/ StmtLookup
    \/ \E response \in UNION {Answers(id) : id \in Ids} : StmtFetch(response)
    \/ \E io \in WriteOutcomes : StmtSave(io)
    \/ StmtAppend
    \/ StmtLoopContinue
    \/ StmtFilter
    \/ \E details \in UNION {Answers(id) : id \in Ids} : StmtRandom(details)

\* The application started with an empty images/ directory.
InitReentrant == Init /\ files = EmptyStorage

SpecReentrant == InitReentrant /\ [][NextReentrant]_vars

\* ------------------------------------------------------------------ claims
\* A loading loop is about to look up Head(pending).
Loading == pc \in {"search", "view_all"} /\ pending # <<>>

\* The step taken is a call of load_image_cached.
ImageCall == last'.op = "load_image_cached"

\* The image cache file of the recipe the latest load_image_cached was for.
LastImagePath == image_cache_file(last.meal_id)

\* The remote's answer to an image request is no image.
FetchFailed(response) ==
    \/ response.kind = "RequestException"
    \/ Image_open(response.content) = Raised

\* A record document that is no well-formed record.
Malformed(doc) ==
    \/ doc.kind \in {"garbage", "partial"}
    \/ doc.kind = "json" /\ ("object" \notin DOMAIN doc \/ ~(RecipeKeys \subseteq DOMAIN doc.object))

\* C1: in a loading loop, when load_recipe_cache returns a record for the id,
\* no get_recipe_details call is made for it and that cached record is what
\* is appended to all_recipes; storage is left as it was.
C1_CacheHitShortCircuits ==
    [][Loading /\ load_recipe_cache(files, Head(pending)) \notin {None, Raised}
       => /\ last'.op = "read_through"
          /\ ~last'.called
          /\ all_recipes' = Append(all_recipes, load_recipe_cache(files, Head(pending)))
          /\ files' = files]_vars

\* A lookup was served from a stored record without asking the remote.
C1_Witness ==
    /\ last.op = "read_through"
    /\ ~last.called
    /\ last.before.kind = "json"
    /\ all_recipes # <<>>
    /\ all_recipes[Len(all_recipes)] = last.recipe

\* C2 as stated: on a miss for an id, when the remote returns record R for
\* that id, R is appended to all_recipes and load_recipe_cache(id) returns R
\* afterwards.
C2_FetchedIsStored ==
    [][/\ Loading
       /\ load_recipe_cache(files, Head(pending)) = None
       /\ last'.recipe.tag = "Recipe"
       /\ last'.recipe.meal_id = Head(pending)
       => /\ all_recipes' = Append(all_recipes, last'.recipe)
          /\ load_recipe_cache(files', Head(pending)) = last'.recipe]_vars

\* C2 amended: on a miss for an id, when the remote returns record R for that
\* id, R is appended to all_recipes; when the write succeeds,
\* load_recipe_cache(id) returns R afterwards; and no step in which the
\* remote returns no record changes what load_recipe_cache returns for any
\* id.
C2_FetchedIsStoredWhenWritten ==
    [][/\ (/\ Loading
           /\ load_recipe_cache(files, Head(pending)) = None
           /\ last'.recipe.tag = "Recipe"
           /\ last'.recipe.meal_id = Head(pending)
           => /\ all_recipes' = Append(all_recipes, last'.recipe)
              /\ (last'.io = "ok" =>
                    load_recipe_cache(files', Head(pending)) = last'.recipe))
       /\ (~(last'.op = "read_through" /\ last'.called /\ last'.recipe.tag = "Recipe")
           => \A id \in Ids :
                load_recipe_cache(files', id) = load_recipe_cache(files, id))]_vars

\* A fetched record was written and is what the cache now returns.
C2_Witness ==
    /\ last.op = "read_through"
    /\ last.called
    /\ last.io = "ok"
    /\ last.recipe.tag = "Recipe"
    /\ last.recipe.meal_id = last.meal_id
    /\ load_recipe_cache(files, last.meal_id) = last.recipe
    /\ all_recipes[Len(all_recipes)] = last.recipe

\* C3: a lookup that misses always asks the remote; when get_recipe_details
\* returns None, nothing is written, nothing is appended, and the id is
\* still a miss afterwards.
C3_FailedFetchNotCached ==
    [][Loading /\ load_recipe_cache(files, Head(pending)) = None
       => /\ last'.called
          /\ (last'.recipe = None
              => /\ files' = files
                 /\ all_recipes' = all_recipes
                 /\ load_recipe_cache(files', Head(pending)) = None)]_vars

\* A fetch failed and left no document for the id.
C3_Witness ==
    /\ last.op = "read_through"
    /\ last.called
    /\ last.recipe = None
    /\ ~exists(files, recipe_cache_file(last.meal_id))

\* C4: whenever the record document of an id exists and is no well-formed
\* record, load_recipe_cache(id) returns None (no exception escapes), and a
\* lookup that found such a document went on to ask the remote.
C4_CorruptRecordIsMiss ==
    /\ \A id \in Ids :
         Malformed(files[recipe_cache_file(id)]) => load_recipe_cache(files, id) = None
    /\ (last.op = "read_through" /\ Malformed(last.before) => last.called)

\* A lookup found a document lacking a field and fetched the record instead.
C4_Witness ==
    /\ last.op = "read_through"
    /\ last.before = DocWithoutIngredients
    /\ last.called
    /\ last.recipe.tag = "Recipe"

\* C5: when the write of a freshly fetched record fails, the loop goes on as
\* after a successful write: the record is appended to all_recipes and the
\* loop moves to the next search result.
C5_RecordWriteFailureSwallowed ==
    [][Loading /\ last'.op = "read_through" /\ last'.io \in {"open_fails", "write_fails"}
       => /\ last'.recipe.tag = "Recipe"
          /\ all_recipes' = Append(all_recipes, last'.recipe)
          /\ pending' = Tail(pending)
          /\ pc' = pc]_vars

\* A record whose write failed was appended to all_recipes.
C5_Witness ==
    /\ last.op = "read_through"
    /\ last.io \in {"open_fails", "write_fails"}
    /\ all_recipes # <<>>
    /\ all_recipes[Len(all_recipes)] = last.recipe
    /\ load_recipe_cache(files, last.meal_id) = None

\* C6: when the image was fetched and decoded but storing it failed,
\* load_image_cached still returns the image at (width, height).
C6_ImageWriteFailureSwallowed ==
    last.op = "load_image_cached" /\ last.io \in {"open_fails", "write_fails"}
    => /\ last.result # None
       /\ last.result.size = <<last.width, last.height>>

\* C7: when the image file of an id exists but does not decode,
\* load_image_cached fetches from the source URL, and returns the resized
\* image if that fetch succeeds.
C7_CorruptImageIsMiss ==
    /\ last.op = "load_image_cached"
    /\ last.before # NoFile
    /\ Image_open(last.before) = Raised
    => /\ last.fetched
       /\ (~FetchFailed(last.response)
           => last.result # None /\ last.result.size = <<last.width, last.height>>)

\* C8: every image load_image_cached returns has exactly the requested size;
\* a call that finds no file, fetches an image and stores it returns that
\* image and leaves it stored; a call that finds a stored image returns it
\* resized and does not ask the remote.
C8_ResizeExactSingleFetch ==
    [][ImageCall
       => LET before == files[image_cache_file(last'.meal_id)]
          IN  /\ (last'.result # None
                  => last'.result.size = <<last'.width, last'.height>>)
              /\ (before = NoFile /\ last'.io = "ok"
                  => /\ last'.result # None
                     /\ files'[image_cache_file(last'.meal_id)].kind = "image")
              /\ (before.kind = "image" => last'.result # None /\ ~last'.fetched)]_vars

\* A recipe's image was stored at the first request and a request at another
\* size was then served from the store.
C8_Witness ==
    /\ last.op = "load_image_cached"
    /\ ~last.fetched
    /\ last.before.kind = "image"
    /\ last.result # None
    /\ last.result.size = <<DetailWidth, DetailHeight>>
    /\ <<DetailWidth, DetailHeight>> # <<CardWidth, CardHeight>>

\* C9: a call that finds no file asks the remote; when the answer is an
\* error or no image, the call returns None and storage is left as it was,
\* so there is still no file for the id.
C9_FailedImageFetchNotCached ==
    [][ImageCall
       => LET path == image_cache_file(last'.meal_id)
          IN  /\ (files[path] = NoFile => last'.fetched)
              /\ (last'.fetched /\ FetchFailed(last'.response)
                  => /\ last'.result = None
                     /\ files' = files
                     /\ files'[path] = NoFile)]_vars

\* The remote answered an image request with something that is no image, and
\* nothing was stored.
C9_Witness ==
    /\ last.op = "load_image_cached"
    /\ last.fetched
    /\ last.response.kind = "content"
    /\ Image_open(last.response.content) = Raised
    /\ last.result = None
    /\ files[LastImagePath] = NoFile

\* C10: a load_image_cached call that finds an image stored for the id
\* leaves every stored artifact as it was, whatever size is requested.
C10_HitLeavesStorage ==
    [][ImageCall /\ files[image_cache_file(last'.meal_id)].kind = "image"
       => files' = files]_vars

\* A stored image was served at a size other than its own and is still
\* stored as it was.
C10_Witness ==
    /\ last.op = "load_image_cached"
    /\ ~last.fetched
    /\ last.before.kind = "image"
    /\ last.result # None
    /\ last.result.size # last.before.size
    /\ files[LastImagePath] = last.before

\* C11 as stated: once load_recipe_cache(id) returns a record, every later
\* load_recipe_cache(id) returns that same record, whatever the remote
\* returns: no step changes what load_recipe_cache returns for an id that
\* has a record.
C11_CachedRecordNeverChanges ==
    [][\A id \in Ids :
         load_recipe_cache(files, id) # None
         => load_recipe_cache(files', id) = load_recipe_cache(files, id)]_vars

\* C11 amended: what load_recipe_cache returns for an id that has a record
\* changes only in a lookup of another id that misses and that the remote
\* answers with a record carrying this id; every other step, a failed fetch
\* and a failed write included, leaves it as it was.
C11_CachedRecordChangesOnlyByForeignAnswer ==
    [][\A id \in Ids :
         /\ load_recipe_cache(files, id) # None
         /\ load_recipe_cache(files', id) # load_recipe_cache(files, id)
         => /\ last'.op = "read_through"
            /\ last'.meal_id # id
            /\ last'.called
            /\ last'.recipe.tag = "Recipe"
            /\ last'.recipe.meal_id = id]_vars

\* A record was fetched and written while the record of another id was
\* cached, and that other record is still what the cache returns.
C11_Witness ==
    /\ last.op = "read_through"
    /\ last.called
    /\ last.io = "ok"
    /\ last.recipe.tag = "Recipe"
    /\ last.recipe.meal_id = last.meal_id
    /\ \E id \in Ids \ {last.meal_id} :
         /\ load_recipe_cache(files, id) # None
         /\ \E k \in DOMAIN all_recipes : all_recipes[k] = load_recipe_cache(files, id)

\* C12: the record location of each id holds no document or one complete
\* record, also after a save_recipe_cache that fails part-way: no step turns
\* a location that is empty or complete into one that is neither.
C12_NoPartialRecords ==
    [][\A id \in Ids :
         ~Malformed(files[recipe_cache_file(id)])
         => ~Malformed(files'[recipe_cache_file(id)])]_vars

\* C13: every record fetched fresh from the remote, by id in a loading loop
\* or at random in get_random_recipe, is what load_recipe_cache returns for
\* its id once the step that fetched it is over.
C13_FreshRecordsAreCached ==
    [][/\ (last'.op = "read_through" /\ last'.called /\ last'.recipe.tag = "Recipe"
           => load_recipe_cache(files', last'.recipe.meal_id) = last'.recipe)
       /\ \A details \in DetailResponses, response \in ImageResponses, io \in WriteOutcomes :
             /\ GetRandomRecipe(details, response, io)
             /\ api_get_random_recipe(details) \notin {None, Raised}
             => load_recipe_cache(files', api_get_random_recipe(details).meal_id)
                   = api_get_random_recipe(details)]_vars

\* The file the latest cache call looked for, opened or wrote.
LastPath ==
    IF last.op = "load_image_cached" THEN image_cache_file(last.meal_id)
    ELSE last.path

\* C14: no cache read or write touches a location outside the cache
\* directory, whatever the identifier: the file of every call of
\* load_recipe_cache, save_recipe_cache and load_image_cached lies in
\* images/ or below it.
C14_NoAccessOutsideCacheDir ==
    last.op \in {"load_recipe_cache", "save_recipe_cache", "load_image_cached"}
    => InsideImagesDir(DirectoryOf(LastPath))

\* C15: a search or fetch that fails with a network error is reported to the
\* user (a messagebox.showerror), in search_recipes, view_all_recipes and
\* get_random_recipe alike, and a search without matches is not reported
\* that way.
C15_RemoteFailureIsReported ==
    /\ (last.op \in {"search_recipes", "search_by_ingredient"}
        => /\ (last.outcome = "error" => last.shown = "showerror")
           /\ (last.outcome = "no_results" => last.shown # "showerror"))
    /\ (last.op = "read_through" /\ last.response = "RequestException"
        => last.shown = "showerror")
    /\ (last.op = "get_random_recipe" /\ last.recipe = None
        => last.shown = "showerror")

\* The step taken is a successful call of save_recipe_cache.
SavedOk == last'.op = "save_recipe_cache" /\ last'.io = "ok"

\* C16: after a successful save_recipe_cache(r), load_recipe_cache(r.meal_id)
\* returns r whatever the location held before: saving r again over r
\* leaves the storage as it was, and saving r over another record of the
\* same id leaves exactly the document of r, with nothing of the old one.
C16_PutIdempotentAndReplacing ==
    [][SavedOk
       => LET r == last'.recipe
              path == recipe_cache_file(r.meal_id)
          IN  /\ load_recipe_cache(files', r.meal_id) = r
              /\ files'[path] = json_dump(recipe_data(r))
              /\ (files[path] = json_dump(recipe_data(r)) => files' = files)
              /\ \A p \in DOMAIN files \ {path} : files'[p] = files[p]]_vars

\* A record was saved twice and a different record of the same id was then
\* saved over it; the cache returns the new record.
C16_Witness ==
    /\ last.op = "save_recipe_cache"
    /\ last.io = "ok"
    /\ last.repeated
    /\ last.prior # None
    /\ last.prior.meal_id = last.recipe.meal_id
    /\ last.prior # last.recipe
    /\ last.before = json_dump(recipe_data(last.prior))
    /\ load_recipe_cache(files, last.meal_id) = last.recipe

\* C17: a successful save_recipe_cache(r) followed by
\* load_recipe_cache(r.meal_id) gives a record equal to r in each of the
\* seven fields, the ingredients being the same sequence.
C17_RoundTrip ==
    [][SavedOk
       => LET r == last'.recipe
              loaded == load_recipe_cache(files', r.meal_id)
          IN  /\ loaded # None
              /\ loaded.meal_id = r.meal_id
              /\ loaded.name = r.name
              /\ loaded.category = r.category
              /\ loaded.area = r.area
              /\ loaded.instructions = r.instructions
              /\ loaded.thumbnail = r.thumbnail
              /\ Len(loaded.ingredients) = Len(r.ingredients)
              /\ \A i \in DOMAIN r.ingredients : loaded.ingredients[i] = r.ingredients[i]]_vars

\* A record with two ingredients and a null category was saved and then
\* loaded, and the loaded record is the saved one.
C17_Witness ==
    /\ last.op = "load_recipe_cache"
    /\ last.result # None
    /\ last.result.category = None
    /\ Len(last.result.ingredients) = 2
    /\ last.result.ingredients[1] # last.result.ingredients[2]
    /\ files[last.path] = json_dump(recipe_data(last.result))

\* MealAPI has built a record from the payload last.meal.
Built ==
    /\ last.op \in {"api.get_recipe_details", "api.get_random_recipe"}
    /\ last.recipe \notin {None, Raised}

\* The upstream values of slot i.
IngredientOf(meal, i) == Get(meal.strIngredient, i, Missing)
MeasureOf(meal, i) == Get(meal.strMeasure, i, Missing)

\* The slots whose ingredient is a non-empty string, and those whose
\* ingredient is a string with a character other than a space.
NonEmptySlots(meal) ==
    {i \in 1..NumSlots : IsStr(IngredientOf(meal, i)) /\ IngredientOf(meal, i).chars # <<>>}
NonBlankSlots(meal) ==
    {i \in 1..NumSlots :
        /\ IsStr(IngredientOf(meal, i))
        /\ \E k \in DOMAIN IngredientOf(meal, i).chars : IngredientOf(meal, i).chars[k] # " "}

\* The k-th slot of slots in increasing order.
KthSlot(slots, k) == CHOOSE i \in slots : Cardinality({j \in slots : j < i}) = k - 1

\* t is text with the spaces at its two ends removed.
IsTrimOf(t, text) ==
    /\ t = <<>> \/ (t[1] # " " /\ t[Len(t)] # " ")
    /\ \E a \in 0..(Len(text) - Len(t)) :
          /\ SubSeq(text, a + 1, a + Len(t)) = t
          /\ \A k \in (1..a) \cup ((a + Len(t) + 1)..Len(text)) : text[k] = " "

\* C18 as stated: the ingredients of a record built from a payload have one
\* entry for each slot whose ingredient is non-empty, in increasing slot
\* order, and the entry of a slot with a measure text is that text, a space
\* and the ingredient name.
C18_IngredientExtraction ==
    Built
    => LET slots == NonEmptySlots(last.meal)
           entries == last.recipe.ingredients
       IN  /\ Len(entries) = Cardinality(slots)
           /\ \A k \in 1..Len(entries) :
                LET i == KthSlot(slots, k)
                IN  IsStr(MeasureOf(last.meal, i))
                    => entries[k].chars = MeasureOf(last.meal, i).chars \o <<" ">>
                                             \o IngredientOf(last.meal, i).chars

\* C18 amended: the ingredients have one entry for each slot whose
\* ingredient is a string that is not blank, in increasing slot order; the
\* entry of a slot with a measure text is that text, a space and the
\* ingredient name, with the spaces at the two ends of the whole removed.
C18_NonBlankSlotsInOrder ==
    Built
    => LET slots == NonBlankSlots(last.meal)
           entries == last.recipe.ingredients
       IN  /\ Len(entries) = Cardinality(slots)
           /\ \A k \in 1..Len(entries) :
                LET i == KthSlot(slots, k)
                IN  IsStr(MeasureOf(last.meal, i))
                    => IsTrimOf(entries[k].chars,
                                MeasureOf(last.meal, i).chars \o <<" ">>
                                   \o IngredientOf(last.meal, i).chars)

\* A record was built from a payload whose first slot is blank and whose
\* second slot has a measure and a name with a space after it; it has the
\* entries of the second and third slot.
C18_Witness ==
    /\ Built
    /\ IngredientOf(last.meal, 1) = Str(<<" ">>)
    /\ IngredientOf(last.meal, 2) = Str(FilledName(2) \o <<" ">>)
    /\ MeasureOf(last.meal, 2) = Str(FilledMeasure(2))
    /\ last.recipe.ingredients =
          <<Str(FilledMeasure(2) \o <<" ">> \o FilledName(2)),
            Str(FilledMeasure(3) \o <<" ">> \o FilledName(3))>>

\* C19: the category and the area of a record built from a payload are
\* strings, and are "Unknown" when the payload's value is missing or null.
C19_CategoryAreaAreStrings ==
    Built
    => /\ IsStr(last.recipe.category)
       /\ IsStr(last.recipe.area)
       /\ (Get(last.meal, "strCategory", None) = None => last.recipe.category = Unknown)
       /\ (Get(last.meal, "strArea", None) = None => last.recipe.area = Unknown)

\* The lookup-fetch-write sequence of one key is under way in callback f:
\* the lookup found no record, and the record is not yet saved.
InSequence(f) == f.pc \in {"fetch", "save"}

\* C20: the cache is used from a single thread, and a callback that is inside
\* a lookup-fetch-write sequence for a key does not give control away: every
\* callback suspended in a root.update() is between two sequences, so no
\* cache operation for the key starts before the sequence ends and two
\* writers never overlap.
C20_SequencesDoNotInterleave ==
    \A i \in 1..Len(stack) :
        InSequence(stack[i]) => i = Len(stack)

\* A callback is inside a lookup-fetch-write sequence while view_all_recipes
\* is suspended in the root.update() of its loop, with results left to load.
C20_Witness ==
    /\ Len(stack) = 2
    /\ stack[1].op = "view_all_recipes"
    /\ stack[1].pc = "loop_update"
    /\ Len(stack[1].pending) > 1
    /\ InSequence(stack[2])
    /\ Head(stack[2].pending) = stack[1].pending[2]

\* C21: search_recipes with a non-empty search result loads the first 10
\* results in order: every iteration of its loop takes the next result, adds
\* the record the cache or the remote yielded to all_recipes, or skips the id
\* when the lookup missed and the fetch failed, and goes on with the rest; no
\* more than 10 results are looked at.
C21_SearchLoadsEveryResult ==
    [][(pc = "search" /\ pending # <<>>) =>
          /\ Len(all_recipes) + Len(pending) <= SearchLimit
          /\ pc' = "search"
          /\ pending' = Tail(pending)
          /\ all_recipes' = IF last'.recipe \in {None, Raised} THEN all_recipes
                            ELSE Append(all_recipes, last'.recipe)]_vars

\* C23: whatever lookup.php answers, get_recipe_details returns a Recipe or
\* None; no exception reaches the loop that called it.
C23_FetchNeverRaises ==
    (last.op = "read_through" /\ last.called) => last.recipe # Raised

RECURSIVE IsSubsequence(_, _)
IsSubsequence(s, t) ==
    IF s = <<>> THEN TRUE
    ELSE IF t = <<>> THEN FALSE
    ELSE IF Head(s) = Head(t) THEN IsSubsequence(Tail(s), Tail(t))
    ELSE IsSubsequence(s, Tail(t))

\* C24: when apply_filters has run, at the end of search_recipes or
\* view_all_recipes or after a filter click, the displayed list
\* current_recipes holds only records of all_recipes, in the same relative
\* order; a search none of whose results could be loaded leaves nothing of
\* the previous search on display.
C24_DisplayedComeFromAllRecipes ==
    last.op = "apply_filters" => IsSubsequence(current_recipes, all_recipes)

\* view_all_recipes is suspended in the root.update() of its loop, with
\* another callback running inside it.
ViewAllSuspended ==
    \E i \in 1..(Len(stack) - 1) :
        stack[i].op = "view_all_recipes" /\ stack[i].pc = "loop_update"

\* C25: the list view_all_recipes is building is its own: no step of a
\* callback handled during the root.update() of its loop adds to all_recipes,
\* resets it or reorders it, so that when view_all_recipes completes
\* all_recipes holds exactly the records that invocation loaded.
C25_ViewAllListUndisturbed ==
    [][ViewAllSuspended => all_recipes' = all_recipes]_vars

\* C26: a search_recipes call whose search failed or found nothing returns
\* with all_recipes, current_recipes and every file of the record cache and
\* of the image cache as they were.
C26_FailedSearchChangesNothing ==
    [][(last'.op = "search_recipes" /\ last'.outcome \in {"error", "no_results"}) =>
          UNCHANGED <<files, all_recipes, current_recipes>>]_vars

\* A search failed while recipes of an earlier search were loaded, on
\* display and cached, record and image.
C26_Witness ==
    /\ last.op = "search_recipes"
    /\ last.outcome = "error"
    /\ all_recipes # <<>>
    /\ current_recipes # <<>>
    /\ \E id \in Ids : /\ files[recipe_cache_file(id)].kind = "json"
                        /\ files[image_cache_file(id)].kind = "image"

\* C27: a record load_recipe_cache returns for an id carries that id,
\* whatever the searches done before and whatever records the remote
\* answered lookups with, records of other ids included.
C27_LoadedRecordHasRequestedId ==
    (last.op = "read_through" /\ ~last.called /\ last.recipe \notin {None, Raised})
        => last.recipe.meal_id = last.meal_id

\* The cache answers the second of two lookups with the record of the
\* requested id, the only record stored, in a run in which the environment
\* departed from nominal (as when the remote answered the first lookup, of
\* another id, with this record).
C27_Witness ==
    /\ last.op = "read_through"
    /\ ~last.called
    /\ last.recipe \notin {None, Raised}
    /\ last.recipe.meal_id = last.meal_id
    /\ files[recipe_cache_file(last.meal_id)].kind = "json"
    /\ \A id \in Ids \ {last.meal_id} : files[recipe_cache_file(id)].kind # "json"
    /\ deviations = 1
    /\ all_recipes # <<>> /\ all_recipes[1].meal_id = last.meal_id
    /\ Len(all_recipes) = 2

\* C28: the entries of the two caches are independent (identifiers being
\* unique, so that two of them never resolve to one file).  A call of
\* save_recipe_cache for a record, whether or not its write succeeds, leaves
\* what load_recipe_cache returns for every other id and leaves every stored
\* image; a call of load_image_cached for an id leaves the image file of
\* every other id and leaves every record file.
C28_EntriesAreIndependent ==
    [][/\ last'.op = "save_recipe_cache" =>
             /\ \A id \in KeyIds \ {last'.meal_id} :
                    /\ load_recipe_cache(files', id) = load_recipe_cache(files, id)
                    /\ files'[recipe_cache_file(id)] = files[recipe_cache_file(id)]
             /\ \A id \in KeyIds : files'[image_cache_file(id)] = files[image_cache_file(id)]
       /\ last'.op = "load_image_cached" =>
             /\ \A id \in KeyIds \ {last'.meal_id} :
                    files'[image_cache_file(id)] = files[image_cache_file(id)]
             /\ \A id \in KeyIds :
                    /\ load_recipe_cache(files', id) = load_recipe_cache(files, id)
                    /\ files'[recipe_cache_file(id)] = files[recipe_cache_file(id)]]_vars

\* load_image_cached has just stored the image of one id while the image
\* and the record of the other id and the record of its own id were stored.
C28_Witness ==
    /\ last.op = "load_image_cached"
    /\ last.fetched
    /\ last.before = NoFile
    /\ files[image_cache_file(last.meal_id)].kind = "image"
    /\ files[recipe_cache_file(last.meal_id)].kind = "json"
    /\ \E id \in KeyIds \ {last.meal_id} :
          /\ files[image_cache_file(id)].kind = "image"
          /\ load_recipe_cache(files, id) # None

\* No two records of recipes carry the same id.
DistinctIds(recipes) ==
    \A i, j \in DOMAIN recipes : recipes[i].meal_id = recipes[j].meal_id => i = j

\* C29: when view_all_recipes has gone through its three searches and calls
\* apply_filters, all_recipes holds no two records with the same id, also
\* when a meal is among the first three results of several searches.
C29_ViewAllHasNoDuplicates ==
    [][(pc = "view_all" /\ last'.op = "apply_filters") => DistinctIds(all_recipes')]_vars

\* C30: in a record built from a payload, the entry of a slot that has an
\* ingredient but whose measure is missing, null or empty is the ingredient
\* name alone, with no text that is not in the slot's upstream fields.
C30_EntryWithoutMeasureIsTheName ==
    Built
    => LET slots == NonBlankSlots(last.meal)
           entries == last.recipe.ingredients
       IN  /\ Len(entries) = Cardinality(slots)
           /\ \A k \in 1..Len(entries) :
                LET i == KthSlot(slots, k)
                IN  MeasureOf(last.meal, i) \in {Missing, None, Str(<<>>)}
                    => IsTrimOf(entries[k].chars, IngredientOf(last.meal, i).chars)

====
